---- MODULE Spec2Model ----
(***************************************************************************)
(* Model of the budget tracker in src/app.py: one reactive cell            *)
(* (budget_data) holding the transaction table, three rendered outputs     *)
(* (month_selector, monthly_totals, all_transactions) recomputed whenever  *)
(* something they read is invalidated, and two event handlers             *)
(* (add_new_transaction, clear_all_data).                                  *)
(*                                                                         *)
(* Execution follows the reactive framework the program is written for:    *)
(*  - budget_data.set(...) invalidates the three outputs, which all read   *)
(*    budget_data; they are re-executed, in no particular order, before    *)
(*    the next event is handled;                                           *)
(*  - budget_data() hands out the stored DataFrame itself, not a copy;     *)
(*  - month_selector returns a new select each time, and the browser then  *)
(*    sends the value of that select as input.selected_month; until the    *)
(*    first value has arrived, reading the input stops monthly_totals      *)
(*    silently;                                                            *)
(*  - a change of input.selected_month invalidates monthly_totals.         *)
(*                                                                         *)
(* Amounts are integers in thousandths of a currency unit, so that values  *)
(* with more than two decimals and the rounding of .round(2) / ":,.2f"     *)
(* are represented; binary floating point is not.  The date and the amount *)
(* of a form are a date and a number.  Strings built by the program        *)
(* (str(Period), strftime, the currency format) are sequences of           *)
(* one-character strings.                                                  *)
(***************************************************************************)
EXTENDS Integers, Sequences, FiniteSets, TLC

VARIABLES
    budget_data,            \* the reactive value: [columns, rows]
    input_selected_month,   \* server-side value of input.selected_month
    month_selector_out,     \* last value rendered by month_selector
    monthly_totals_out,     \* last value rendered by monthly_totals
    all_transactions_out,   \* last value rendered by all_transactions
    invalidated,            \* outputs waiting to be re-executed in this flush
    pending_select,         \* the browser holds a fresh select whose value is not sent yet
    n_added,                \* number of accepted add_new_transaction events so far
    last_event              \* the last user event and what became of it

vars == << budget_data, input_selected_month, month_selector_out,
           monthly_totals_out, all_transactions_out, invalidated,
           pending_select, n_added, last_event >>

----------------------------------------------------------------------------
(* Bounds and input sets *)

MaxAdds == 2

None == "<None>"      \* Python None: distinct from every text drawn below

TextInputs == { None, "", "x" }
NotesInputs == { None, "", "memo" }
DateInputs == { [year |-> 2024, month |-> 2, day |-> 15],
                [year |-> 2024, month |-> 11, day |-> 3] }
AmountInputs == { -4, 1234560 }
CategoryInputs == { "Food" }

----------------------------------------------------------------------------
(* Program constants *)

BUDGET_CATEGORIES ==
    << "Housing", "Food", "Clothing", "Education", "Transportation",
       "Communications", "Health", "Recreation", "Other", "Debt",
       "Fast Offering", "Tithing", "Income" >>

StoreColumns ==
    { "Date", "Description", "Amount", "Vendor", "Budget_Category", "Buyer", "Notes" }

\* the three outputs that read budget_data
Outputs == { "month_selector", "monthly_totals", "all_transactions" }

NaT == [year |-> 0, month |-> 0]

----------------------------------------------------------------------------
(* Sequence helpers *)

Range(s) == { s[i] : i \in 1..Len(s) }

RECURSIVE SumSeq(_)
SumSeq(s) == IF s = << >> THEN 0 ELSE Head(s) + SumSeq(Tail(s))

Abs(x) == IF x < 0 THEN -x ELSE x

----------------------------------------------------------------------------
(* Strings: sequences of one-character strings, compared as Python        *)
(* compares str (code point by code point, a proper prefix is smaller)    *)

DigitChars == << "0", "1", "2", "3", "4", "5", "6", "7", "8", "9" >>

DigitVal(c) == (CHOOSE i \in 1..10 : DigitChars[i] = c) - 1

\* code points of the characters that occur in the program's strings
Ord(c) ==
    CASE c = "$" -> 36
      [] c = "," -> 44
      [] c = "-" -> 45
      [] c = "." -> 46
      [] OTHER   -> 48 + DigitVal(c)

RECURSIVE StrLess(_, _)
StrLess(a, b) ==
    IF b = << >> THEN FALSE
    ELSE IF a = << >> THEN TRUE
    ELSE IF Head(a) # Head(b) THEN Ord(Head(a)) < Ord(Head(b))
    ELSE StrLess(Tail(a), Tail(b))

\* decimal digits of a natural number, no padding
RECURSIVE Digits(_)
Digits(n) ==
    IF n < 10 THEN << DigitChars[n + 1] >>
    ELSE Digits(n \div 10) \o << DigitChars[(n % 10) + 1] >>

\* zero-padded to at least w characters ("%Y", "%m", "%d", Period's "%Y-%m")
RECURSIVE Pad(_, _)
Pad(s, w) == IF Len(s) >= w THEN s ELSE Pad(<< "0" >> \o s, w)

RECURSIVE ParseNat(_)
ParseNat(s) ==
    IF s = << >> THEN 0
    ELSE 10 * ParseNat(SubSeq(s, 1, Len(s) - 1)) + DigitVal(s[Len(s)])

----------------------------------------------------------------------------
(* Dates, timestamps and periods *)

\* pd.to_datetime(date): the date at midnight
to_datetime(d) ==
    [year |-> d.year, month |-> d.month, day |-> d.day, hour |-> 0]

\* .dt.to_period('M')
to_period(ts) == [year |-> ts.year, month |-> ts.month]

\* str(Period) for a monthly period: "2024-02"
PeriodStr(p) == Pad(Digits(p.year), 4) \o << "-" >> \o Pad(Digits(p.month), 2)

\* pd.Period("2024-02")
Period(s) ==
    LET dash == CHOOSE i \in 1..Len(s) : s[i] = "-"
    IN  [year  |-> ParseNat(SubSeq(s, 1, dash - 1)),
         month |-> ParseNat(SubSeq(s, dash + 1, Len(s)))]

\* Period ordering (ordinal of the month)
PeriodLess(p, q) == p.year * 12 + p.month < q.year * 12 + q.month

\* .dt.strftime('%Y-%m-%d')
strftime(ts) ==
    Pad(Digits(ts.year), 4) \o << "-" >> \o Pad(Digits(ts.month), 2)
        \o << "-" >> \o Pad(Digits(ts.day), 2)

----------------------------------------------------------------------------
(* Currency: .round(2) and f"${x:,.2f}"; amounts in thousandths *)

\* round to two decimals, half to even; the sign is kept apart because a
\* negative value that rounds to zero is still printed with its sign
round2(x) ==
    LET a == Abs(x)
        q == a \div 10
        r == a % 10
        c == IF r > 5 \/ (r = 5 /\ q % 2 = 1) THEN q + 1 ELSE q
    IN  [neg |-> x < 0, cents |-> c]

\* "," every three digits of the integer part
RECURSIVE Grouped(_)
Grouped(n) ==
    IF n < 1000 THEN Digits(n)
    ELSE Grouped(n \div 1000) \o << "," >> \o Pad(Digits(n % 1000), 3)

\* f"${x:,.2f}" of an already rounded value
FormatRounded(v) ==
    << "$" >> \o (IF v.neg THEN << "-" >> ELSE << >>)
        \o Grouped(v.cents \div 100) \o << "." >> \o Pad(Digits(v.cents % 100), 2)

\* lambda x: f"${x:,.2f}"
format_currency(x) == FormatRounded(round2(x))

----------------------------------------------------------------------------
(* Tables: [columns |-> set of column names, rows |-> sequence of records] *)

Table(cols, rows) == [columns |-> cols, rows |-> rows]

\* len(data)
len(data) == Len(data.rows)

\* pd.concat([a, b], ignore_index=True): rows of a then rows of b, over the
\* union of the columns; a cell a frame has no column for is missing (NaT for
\* the only such column, YearMonth)
Reindex(row, cols) == [c \in cols |-> IF c \in DOMAIN row THEN row[c] ELSE NaT]

concat(a, b) ==
    LET cols == a.columns \cup b.columns
    IN  Table(cols,
              [i \in 1..Len(a.rows) |-> Reindex(a.rows[i], cols)]
                  \o [i \in 1..Len(b.rows) |-> Reindex(b.rows[i], cols)])

SampleRow(d, desc, amt, vendor, cat, buyer, notes) ==
    [Date |-> to_datetime(d), Description |-> desc, Amount |-> amt,
     Vendor |-> vendor, Budget_Category |-> cat, Buyer |-> buyer, Notes |-> notes]

get_sample_data ==
    Table(StoreColumns,
      << SampleRow([year |-> 2024, month |-> 1, day |-> 15], "Rent Payment", -1200000,
                   "Property Management", "Housing", "John", "Monthly rent for apartment"),
         SampleRow([year |-> 2024, month |-> 1, day |-> 20], "Grocery Store", -85500,
                   "Safeway", "Food", "Jane", "Weekly grocery shopping"),
         SampleRow([year |-> 2024, month |-> 1, day |-> 25], "Gas Station", -45000,
                   "Shell", "Transportation", "John", "Fill up tank"),
         SampleRow([year |-> 2024, month |-> 2, day |-> 5], "Internet Bill", -75000,
                   "Comcast", "Communications", "John", "Monthly internet service"),
         SampleRow([year |-> 2024, month |-> 2, day |-> 10], "Restaurant", -32000,
                   "Local Diner", "Food", "Jane", "Dinner with friends"),
         SampleRow([year |-> 2024, month |-> 2, day |-> 15], "Salary", 3500000,
                   "Company", "Income", "John", "Bi-weekly paycheck") >>)

----------------------------------------------------------------------------
(* Sorting *)

\* variant of unique that drops nothing
unique_keeps_all(s) == s

\* Series.unique(): the distinct values in order of first appearance
RECURSIVE unique(_)
unique(s) ==
    IF s = << >> THEN << >>
    ELSE LET u == unique(SubSeq(s, 1, Len(s) - 1))
         IN  IF s[Len(s)] \in Range(u) THEN u ELSE Append(u, s[Len(s)])

\* sorted(periods, reverse=True): insertion of each element after every
\* element that is not smaller, so equal elements keep their order
RECURSIVE InsertDesc(_, _)
InsertDesc(s, p) ==
    IF s = << >> THEN << p >>
    ELSE IF PeriodLess(Head(s), p) THEN << p >> \o s
    ELSE << Head(s) >> \o InsertDesc(Tail(s), p)

RECURSIVE sorted_reverse(_)
sorted_reverse(s) ==
    IF s = << >> THEN << >>
    ELSE InsertDesc(sorted_reverse(SubSeq(s, 1, Len(s) - 1)), s[Len(s)])

\* DataFrame.sort_values(by) with the default kind='quicksort', which is not
\* a stable sort: the result is ordered by the key, and rows with equal keys
\* come in an order the call does not fix.  before[i][j] says that row i's key
\* sorts strictly before row j's.  The value is the set of possible orders,
\* each a sequence of row positions (1 is the first row).
RECURSIVE Orders(_, _)
Orders(S, before) ==
    IF S = {} THEN { << >> }
    ELSE UNION { { << i >> \o t : t \in Orders(S \ { i }, before) } :
                 i \in { i \in S : \A j \in S : ~ before[j][i] } }

sort_values(n, before) == Orders(1..n, before)

\* Python's order on the category names (str comparison), spelled out
CategoryCollation ==
    << "Clothing", "Communications", "Debt", "Education", "Fast Offering",
       "Food", "Health", "Housing", "Income", "Other", "Recreation",
       "Tithing", "Transportation" >>

CategoryIndex(c) == CHOOSE i \in 1..Len(CategoryCollation) : CategoryCollation[i] = c

CategoryLess(a, b) == CategoryIndex(a) < CategoryIndex(b)

----------------------------------------------------------------------------
(* The three views, as functions of the table they are given *)

\* data['YearMonth'] = data['Date'].dt.to_period('M'): assignment to a column
\* of the object itself; the column is added when it does not exist yet
WithYearMonth(data) ==
    Table(data.columns \cup { "YearMonth" },
          [i \in 1..Len(data.rows) |->
              ("YearMonth" :> to_period(data.rows[i].Date)) @@ data.rows[i]])

Column(data, col) == [i \in 1..Len(data.rows) |-> data.rows[i][col]]

\* sorted(data['YearMonth'].unique(), reverse=True)
unique_months(data) == sorted_reverse(unique(Column(data, "YearMonth")))

\* the keys of month_choices, in the order of the dict
month_choices(months) == [i \in 1..Len(months) |-> PeriodStr(months[i])]

\* variant of month_selector_value that preselects the last month of the list
month_selector_value_last(months) ==
        IF Len(months) = 0
        THEN [kind |-> "p", choices |-> << >>, selected |-> << >>]
        ELSE [kind |-> "select", choices |-> month_choices(months),
              selected |-> PeriodStr(months[Len(months)])]

\* what month_selector returns once it has the months
month_selector_value(months) ==
        IF Len(months) = 0
        THEN [kind |-> "p", choices |-> << >>, selected |-> << >>]
        ELSE [kind |-> "select", choices |-> month_choices(months),
              selected |-> PeriodStr(months[1])]

\* variant of monthly_data that keeps every row
monthly_data_unfiltered(data, selected_period) == data.rows

\* data[data['YearMonth'] == selected_period]
monthly_data(data, selected_period) ==
    SelectSeq(data.rows, LAMBDA row : row.YearMonth = selected_period)

\* groupby('Budget_Category'): the group keys, sorted
group_keys(rows) ==
    SelectSeq(CategoryCollation, LAMBDA c : \E i \in 1..Len(rows) : rows[i].Budget_Category = c)

group_rows(rows, c) == SelectSeq(rows, LAMBDA row : row.Budget_Category = c)

\* .agg({'Amount': ['sum', 'count']}).round(2), reset_index and the renaming
\* of the columns
\* variant of group_total that takes the first amount of the group for the sum
group_total_first(c, g) ==
    [Category |-> c, Total |-> round2(g[1].Amount), Count |-> Len(g)]

\* one row of the aggregate: 'sum' and 'count' of the group's Amount, rounded
group_total(c, g) ==
    [Category |-> c,
     Total |-> round2(SumSeq([i \in 1..Len(g) |-> g[i].Amount])),
     Count |-> Len(g)]

category_totals(rows) ==
    LET keys == group_keys(rows)
    IN  [k \in 1..Len(keys) |-> group_total(keys[k], group_rows(rows, keys[k]))]

\* category_totals['Total'].apply(lambda x: f"${x:,.2f}")
format_totals(totals) ==
    [k \in 1..Len(totals) |-> [totals[k] EXCEPT !.Total = FormatRounded(@)]]

\* the possible results of category_totals.sort_values('Category')
CategoryBefore(totals) ==
    [i \in 1..Len(totals) |-> [j \in 1..Len(totals) |->
        CategoryLess(totals[i].Category, totals[j].Category)]]

sorted_totals(totals) ==
    UNION { { [k \in 1..Len(totals) |-> totals[o[k]]] :
              o \in sort_values(Len(totals), before) } :
            before \in { CategoryBefore(totals) } }

\* the rows of display_data before the final sort; index is the row label,
\* which the frame keeps through the sort
display_data(data) ==
    [i \in 1..Len(data.rows) |->
        LET row == data.rows[i]
        IN  [index |-> i - 1,
             Date |-> strftime(row.Date),
             Description |-> row.Description,
             Amount |-> format_currency(row.Amount),
             Vendor |-> row.Vendor,
             Category |-> row.Budget_Category,
             Buyer |-> row.Buyer,
             Notes |-> row.Notes]]

\* the possible results of display_data.sort_values('Date', ascending=False)
DateAfter(display) ==
    [i \in 1..Len(display) |-> [j \in 1..Len(display) |->
        StrLess(display[j].Date, display[i].Date)]]

sorted_display(display) ==
    UNION { { [k \in 1..Len(display) |-> display[o[k]]] :
              o \in sort_values(Len(display), before) } :
            before \in { DateAfter(display) } }

----------------------------------------------------------------------------
(* Inputs of the form and the handlers' pure parts *)

Unset == [set |-> FALSE, value |-> << >>]

NoInput ==
    [date |-> [year |-> 0, month |-> 0, day |-> 0], description |-> None,
     amount |-> 0, vendor |-> None, category |-> None, buyer |-> None,
     notes |-> None]

\* truthiness of a text value: None and "" are falsy
Truthy(x) == x # None /\ x # ""

\* variants of req used to test the properties: one that looks at the
\* description only, one that lets everything through
req_description_only(description, vendor, buyer) == Truthy(description)

req_nothing(description, vendor, buyer) == TRUE

\* req(input.description(), input.vendor(), input.buyer()): passes only when
\* all three are truthy, otherwise the handler stops there
req(description, vendor, buyer) == Truthy(description) /\ Truthy(vendor) /\ Truthy(buyer)

\* variant of new_transaction that stores the notes as they come
new_transaction_raw_notes(in) ==
    Table(StoreColumns,
          << [Date |-> to_datetime(in.date),
              Description |-> in.description,
              Amount |-> in.amount,
              Vendor |-> in.vendor,
              Budget_Category |-> in.category,
              Buyer |-> in.buyer,
              Notes |-> in.notes] >>)

\* the one-row frame built from the form
new_transaction(in) ==
    Table(StoreColumns,
          << [Date |-> to_datetime(in.date),
              Description |-> in.description,
              Amount |-> in.amount,
              Vendor |-> in.vendor,
              Budget_Category |-> in.category,
              Buyer |-> in.buyer,
              Notes |-> IF Truthy(in.notes) THEN in.notes ELSE ""] >>)

\* variant of empty_df that keeps the first stored row
empty_df_keeps_row == Table(StoreColumns, << get_sample_data.rows[1] >>)

\* the frame clear_all_data stores
empty_df == Table(StoreColumns, << >>)

----------------------------------------------------------------------------
(* Initial state: the store holds the sample data, nothing is rendered yet *)

NotRendered == [status |-> "not rendered", rows |-> << >>]

Init ==
    /\ budget_data = get_sample_data
    /\ input_selected_month = Unset
    /\ month_selector_out = [kind |-> "not rendered", choices |-> << >>, selected |-> << >>]
    /\ monthly_totals_out = NotRendered
    /\ all_transactions_out = NotRendered
    /\ invalidated = Outputs
    /\ pending_select = FALSE
    /\ n_added = 0
    /\ last_event = [op |-> "none", accepted |-> FALSE, input |-> NoInput,
                     after_rejected |-> FALSE]

\* no output is waiting and the browser has nothing to send: the next thing
\* to happen is a user event
Idle == invalidated = {} /\ ~ pending_select

Rejected == last_event.op = "add" /\ ~ last_event.accepted

----------------------------------------------------------------------------
(* Event handlers *)

\* add_new_transaction with a form that passes req
AddAccepted ==
    /\ Idle
    /\ n_added < MaxAdds
    /\ \E description \in TextInputs, vendor \in TextInputs, buyer \in TextInputs :
          /\ req(description, vendor, buyer)
          /\ \E date \in DateInputs, amount \in AmountInputs,
                category \in CategoryInputs, notes \in NotesInputs :
                LET in == [date |-> date, description |-> description,
                           amount |-> amount, vendor |-> vendor,
                           category |-> category, buyer |-> buyer, notes |-> notes]
                IN  /\ budget_data' = concat(budget_data, new_transaction(in))
                    /\ last_event' = [op |-> "add", accepted |-> TRUE, input |-> in,
                                      after_rejected |-> Rejected]
    /\ n_added' = n_added + 1
    /\ invalidated' = Outputs
    /\ UNCHANGED << input_selected_month, month_selector_out, monthly_totals_out,
                    all_transactions_out, pending_select >>

\* add_new_transaction with a form that req stops
AddRejected ==
    /\ Idle
    /\ \E description \in TextInputs, vendor \in TextInputs, buyer \in TextInputs :
          /\ ~ req(description, vendor, buyer)
          /\ last_event' = [op |-> "add", accepted |-> FALSE, input |-> NoInput,
                            after_rejected |-> FALSE]
    /\ UNCHANGED << budget_data, input_selected_month, month_selector_out,
                    monthly_totals_out, all_transactions_out, invalidated,
                    pending_select, n_added >>

clear_all_data ==
    /\ Idle
    /\ budget_data' = empty_df
    /\ last_event' = [op |-> "clear", accepted |-> TRUE, input |-> NoInput,
                      after_rejected |-> FALSE]
    /\ invalidated' = Outputs
    /\ UNCHANGED << input_selected_month, month_selector_out, monthly_totals_out,
                    all_transactions_out, pending_select, n_added >>

----------------------------------------------------------------------------
(* Outputs, re-executed one at a time while the flush lasts *)

month_selector ==
    /\ "month_selector" \in invalidated
    /\ invalidated' = invalidated \ { "month_selector" }
    /\ IF len(budget_data) = 0
       THEN /\ month_selector_out' = [kind |-> "p", choices |-> << >>, selected |-> << >>]
            /\ pending_select' = FALSE
            /\ UNCHANGED budget_data
       ELSE \E data \in { WithYearMonth(budget_data) } :
            \E months \in { unique_months(data) } :
               /\ budget_data' = data
               /\ month_selector_out' = month_selector_value(months)
               /\ pending_select' = (Len(months) # 0)
    /\ UNCHANGED << input_selected_month, monthly_totals_out, all_transactions_out,
                    n_added, last_event >>

monthly_totals ==
    /\ "monthly_totals" \in invalidated
    /\ invalidated' = invalidated \ { "monthly_totals" }
    /\ IF len(budget_data) = 0
       THEN /\ monthly_totals_out' = [status |-> "table", rows |-> << >>]
            /\ UNCHANGED budget_data
       ELSE IF ~ input_selected_month.set
       THEN \* reading an input the browser has not sent yet stops the
            \* output silently: nothing is shown
            /\ monthly_totals_out' = [status |-> "silent", rows |-> << >>]
            /\ UNCHANGED budget_data
       ELSE \E data \in { WithYearMonth(budget_data) },
               selected_period \in { Period(input_selected_month.value) } :
            \E rows \in { monthly_data(data, selected_period) } :
               /\ budget_data' = data
               /\ IF Len(rows) = 0
                  THEN monthly_totals_out' = [status |-> "table", rows |-> << >>]
                  ELSE \E totals \in { format_totals(category_totals(rows)) } :
                       \E t \in sorted_totals(totals) :
                          monthly_totals_out' = [status |-> "table", rows |-> t]
    /\ UNCHANGED << input_selected_month, month_selector_out, all_transactions_out,
                    pending_select, n_added, last_event >>

all_transactions ==
    /\ "all_transactions" \in invalidated
    /\ invalidated' = invalidated \ { "all_transactions" }
    /\ IF len(budget_data) = 0
       THEN all_transactions_out' = [status |-> "table", rows |-> << >>]
       ELSE \E display \in { display_data(budget_data) } :
            \E t \in sorted_display(display) :
               all_transactions_out' = [status |-> "table", rows |-> t]
    /\ UNCHANGED << budget_data, input_selected_month, month_selector_out,
                    monthly_totals_out, pending_select, n_added, last_event >>

----------------------------------------------------------------------------
(* The selected month *)

\* input.selected_month takes the value v; monthly_totals is re-executed
\* only when the value changed
SetSelectedMonth(v) ==
    /\ input_selected_month' = [set |-> TRUE, value |-> v]
    /\ invalidated' = IF input_selected_month' # input_selected_month
                      THEN { "monthly_totals" } ELSE {}

\* the browser sends the value of the select it has just been given
DeliverSelected ==
    /\ invalidated = {}
    /\ pending_select
    /\ SetSelectedMonth(month_selector_out.selected)
    /\ pending_select' = FALSE
    /\ UNCHANGED << budget_data, month_selector_out, monthly_totals_out,
                    all_transactions_out, n_added, last_event >>

\* the user picks another month in the select
SelectMonth ==
    /\ Idle
    /\ month_selector_out.kind = "select"
    /\ \E i \in 1..Len(month_selector_out.choices) :
          /\ month_selector_out.choices[i] # input_selected_month.value
          /\ SetSelectedMonth(month_selector_out.choices[i])
    /\ last_event' = [op |-> "select", accepted |-> TRUE, input |-> NoInput,
                      after_rejected |-> FALSE]
    /\ UNCHANGED << budget_data, month_selector_out, monthly_totals_out,
                    all_transactions_out, pending_select, n_added >>

----------------------------------------------------------------------------

Next ==
    \/ AddAccepted
    \/ AddRejected
    \/ clear_all_data
    \/ month_selector
    \/ monthly_totals
    \/ all_transactions
    \/ DeliverSelected
    \/ SelectMonth

Spec == Init /\ [][Next]_vars

----------------------------------------------------------------------------
(* Vocabulary of the properties *)

StoreRows == budget_data.rows

\* the seven fields of a stored row, whatever other column the table has
Fields(row) == [c \in StoreColumns |-> row[c]]

\* the row falls in the month (y, m)
InMonth(row, p) == row.Date.year = p.year /\ row.Date.month = p.month

MonthsInStore == { [year |-> StoreRows[i].Date.year, month |-> StoreRows[i].Date.month] :
                   i \in 1..Len(StoreRows) }

Earlier(p, q) == p.year < q.year \/ (p.year = q.year /\ p.month < q.month)

MostRecentMonth == CHOOSE p \in MonthsInStore : \A q \in MonthsInStore : ~ Earlier(p, q)

\* the (year, month) the server holds as the selected month
SelectedMonth == Period(input_selected_month.value)

\* positions of the stored rows of the selected month, and of one category of it
MonthPositions == { i \in 1..Len(StoreRows) : InMonth(StoreRows[i], SelectedMonth) }

CategoryPositions(c) == { i \in MonthPositions : StoreRows[i].Budget_Category = c }

RECURSIVE AmountSum(_)
AmountSum(I) ==
    IF I = {} THEN 0
    ELSE LET i == CHOOSE j \in I : TRUE
         IN  StoreRows[i].Amount + AmountSum(I \ { i })

\* the multiple of a hundredth nearest to x (in thousandths), a tie going to
\* the even hundredth
RoundedToCents(x) ==
    LET cand == { 10 * c : c \in ((x \div 10) - 1)..((x \div 10) + 1) }
    IN  CHOOSE v \in cand :
            \A w \in cand :
                \/ Abs(v - x) < Abs(w - x)
                \/ (Abs(v - x) = Abs(w - x) /\ (v = w \/ (v \div 10) % 2 = 0))

\* the outputs show the current store (and selected month)
SelectorCurrent ==
    "month_selector" \notin invalidated /\ month_selector_out.kind # "not rendered"

TotalsCurrent ==
    /\ "monthly_totals" \notin invalidated
    /\ monthly_totals_out.status = "table"
    /\ input_selected_month.set

TransactionsCurrent ==
    "all_transactions" \notin invalidated /\ all_transactions_out.status = "table"

TotalRows == monthly_totals_out.rows

\* what a reader of the table gets back from a currency string, in thousandths
ParseCurrency(s) ==
    LET ds  == SelectSeq(s, LAMBDA c : c \notin { "$", ",", "-", "." })
        neg == \E i \in 1..Len(s) : s[i] = "-"
    IN  (IF neg THEN -1 ELSE 1) * ParseNat(ds) * 10

RECURSIVE ReportedSum(_)
ReportedSum(k) ==
    IF k = 0 THEN 0 ELSE ParseCurrency(TotalRows[k].Total) + ReportedSum(k - 1)

\* a step in which a submitted form was accepted / stopped by req
AcceptedStep == n_added' = n_added + 1

RejectedStep == Idle /\ last_event'.op = "add" /\ ~ last_event'.accepted

----------------------------------------------------------------------------
(* Properties *)

\* C1: an accepted submission makes the store one row longer, and the new
\* last row carries the submitted date, description, amount, vendor,
\* category and buyer, with the notes as given or "" when none was given.
C1_AppendStoresTheInput ==
    [][ AcceptedStep =>
          LET in  == last_event'.input
              new == budget_data'.rows[Len(budget_data'.rows)]
          IN  /\ Len(budget_data'.rows) = Len(StoreRows) + 1
              /\ new.Date.year = in.date.year
              /\ new.Date.month = in.date.month
              /\ new.Date.day = in.date.day
              /\ new.Description = in.description
              /\ new.Amount = in.amount
              /\ new.Vendor = in.vendor
              /\ new.Budget_Category = in.category
              /\ new.Buyer = in.buyer
              /\ new.Notes = (IF in.notes \in { None, "" } THEN "" ELSE in.notes) ]_vars

\* a form without notes has just been accepted on top of the sample rows
C1_Witness ==
    /\ last_event.op = "add" /\ last_event.accepted
    /\ last_event.input.notes = None
    /\ invalidated = Outputs
    /\ Len(StoreRows) = 7
    /\ StoreRows[7].Notes = ""

\* C2: a submission whose description, vendor or buyer is empty or missing
\* is never accepted, and the step that rejects it leaves the store and
\* everything rendered from it as they were.
C2_RejectedSubmissionChangesNothing ==
    [][ /\ AcceptedStep =>
              /\ last_event'.input.description \notin { None, "" }
              /\ last_event'.input.vendor \notin { None, "" }
              /\ last_event'.input.buyer \notin { None, "" }
        /\ RejectedStep =>
              /\ budget_data' = budget_data
              /\ UNCHANGED << month_selector_out, monthly_totals_out,
                              all_transactions_out, input_selected_month,
                              n_added >> ]_vars

\* a form was rejected and the next one, a valid one, was accepted
C2_Witness ==
    /\ last_event.op = "add" /\ last_event.accepted
    /\ last_event.after_rejected
    /\ Len(StoreRows) = 7

\* C3: after clear-all the store is empty, and once the outputs have been
\* re-executed the transaction list and the list of months are empty and the
\* monthly totals are an empty table, whatever month was selected.
C3_ClearEmptiesEverything ==
    last_event.op = "clear" =>
        /\ Len(StoreRows) = 0
        /\ TransactionsCurrent => all_transactions_out.rows = << >>
        /\ SelectorCurrent => month_selector_out.choices = << >>
        /\ "monthly_totals" \notin invalidated =>
               monthly_totals_out = [status |-> "table", rows |-> << >>]

\* clear-all on a store that had rows and a selected month, outputs done
C3_Witness ==
    /\ last_event.op = "clear"
    /\ invalidated = {}
    /\ input_selected_month.set
    /\ n_added = 1
    /\ monthly_totals_out.status = "table"
    /\ month_selector_out.kind = "p"

\* C9: every stored transaction has a non-empty description, vendor and
\* buyer and a category out of the thirteen budget categories.
C9_StoredRowsAreValid ==
    \A i \in 1..Len(StoreRows) :
        /\ StoreRows[i].Description \notin { None, "" }
        /\ StoreRows[i].Vendor \notin { None, "" }
        /\ StoreRows[i].Buyer \notin { None, "" }
        /\ \E k \in 1..Len(BUDGET_CATEGORIES) :
               StoreRows[i].Budget_Category = BUDGET_CATEGORIES[k]

\* the store was cleared and two forms were accepted since
C9_Witness ==
    /\ n_added = 2
    /\ Len(StoreRows) = 2
    /\ Idle

\* C4 (as stated): every reported category total is the sum of the amounts
\* of the stored transactions of that category in the selected month, and the
\* reported totals add up to the sum of all amounts of that month.
C4_TotalsAreExactSums ==
    TotalsCurrent =>
        /\ \A k \in 1..Len(TotalRows) :
              ParseCurrency(TotalRows[k].Total)
                  = AmountSum(CategoryPositions(TotalRows[k].Category))
        /\ ReportedSum(Len(TotalRows)) = AmountSum(MonthPositions)

\* C4 (amended): every reported category total is that sum rounded to two
\* decimals, and the reported totals add up to the sum of all amounts of the
\* month when every amount of the month is a whole number of hundredths.
C4_TotalsAreRoundedSums ==
    TotalsCurrent =>
        /\ \A k \in 1..Len(TotalRows) :
              ParseCurrency(TotalRows[k].Total)
                  = RoundedToCents(AmountSum(CategoryPositions(TotalRows[k].Category)))
        /\ (\A i \in MonthPositions : StoreRows[i].Amount % 10 = 0)
              => ReportedSum(Len(TotalRows)) = AmountSum(MonthPositions)

\* totals of a month with several categories, one of them holding an amount
\* with a third decimal next to another amount
C4_Witness ==
    /\ TotalsCurrent
    /\ Len(TotalRows) >= 3
    /\ \E k \in 1..Len(TotalRows) :
          /\ TotalRows[k].Count >= 2
          /\ \E i \in CategoryPositions(TotalRows[k].Category) :
                StoreRows[i].Amount % 10 # 0

ViewRows == all_transactions_out.rows

\* the stored row a row of the view shows
Shown(k) == StoreRows[ViewRows[k].index + 1]

DateBefore(a, b) ==
    \/ a.year < b.year
    \/ (a.year = b.year /\ a.month < b.month)
    \/ (a.year = b.year /\ a.month = b.month /\ a.day < b.day)

\* the view shows every stored row once, most recent date first
ViewIsDescendingPermutation ==
    TransactionsCurrent =>
        /\ Len(ViewRows) = Len(StoreRows)
        /\ { ViewRows[k].index : k \in 1..Len(ViewRows) } = 0..(Len(StoreRows) - 1)
        /\ \A k \in 1..Len(ViewRows) :
              /\ ViewRows[k].Description = Shown(k).Description
              /\ ViewRows[k].Category = Shown(k).Budget_Category
              /\ ViewRows[k].Notes = Shown(k).Notes
        /\ \A k, l \in 1..Len(ViewRows) :
              k < l => ~ DateBefore(Shown(k).Date, Shown(l).Date)

\* C6: the all-transactions view is a permutation of the stored transactions
\* sorted by date descending, and transactions with the same date appear in
\* the order in which they were inserted.
C6_ViewIsStableDescending ==
    /\ ViewIsDescendingPermutation
    /\ TransactionsCurrent =>
          \A k, l \in 1..Len(ViewRows) :
              (k < l /\ Shown(k).Date = Shown(l).Date)
                  => ViewRows[k].index < ViewRows[l].index

\* C7: the months offered are exactly the distinct (year, month) pairs of
\* the stored dates, each once, most recent first, and there is none if and
\* only if the store is empty.
C7_MonthsAreDistinctDescending ==
    SelectorCurrent =>
        LET ch == month_selector_out.choices
        IN  /\ { Period(ch[i]) : i \in 1..Len(ch) } = MonthsInStore
            /\ \A i, j \in 1..Len(ch) : i < j => Earlier(Period(ch[j]), Period(ch[i]))
            /\ (Len(ch) = 0) <=> (Len(StoreRows) = 0)

\* three months offered for eight stored rows
C7_Witness ==
    /\ SelectorCurrent
    /\ Len(month_selector_out.choices) = 3
    /\ Len(StoreRows) = 8

ClearStep == Idle /\ last_event'.op = "clear"

\* C8: no step other than clear-all changes the stored table: an accepted
\* submission adds one row after the rows that were there and leaves those
\* as they were, and every other step (a rejected submission, the
\* computation of a view, a change of the selected month) leaves the table
\* exactly as it was.
C8_OnlyClearAndAppendChangeTheStore ==
    [][ /\ AcceptedStep =>
              /\ Len(budget_data'.rows) = Len(StoreRows) + 1
              /\ SubSeq(budget_data'.rows, 1, Len(StoreRows)) = StoreRows
        /\ (~ AcceptedStep /\ ~ ClearStep) => budget_data' = budget_data ]_vars

\* what does hold of the views: they leave the seven fields of every stored
\* row as they were
ViewsKeepTheFields ==
    [][ (~ AcceptedStep /\ ~ ClearStep) =>
          /\ Len(budget_data'.rows) = Len(StoreRows)
          /\ \A i \in 1..Len(StoreRows) :
                Fields(budget_data'.rows[i]) = Fields(StoreRows[i]) ]_vars

\* C10: after an accepted submission the month selector is rebuilt with the
\* most recent month of the store selected; once the browser has delivered
\* that value, the selected month is that most recent month, whatever was
\* selected before, and the totals shown are not empty.
C10_AppendSelectsMostRecentMonth ==
    (last_event.op = "add" /\ last_event.accepted) =>
        /\ "month_selector" \notin invalidated =>
              /\ month_selector_out.kind = "select"
              /\ Period(month_selector_out.selected) = MostRecentMonth
        /\ Idle =>
              /\ input_selected_month.set
              /\ SelectedMonth = MostRecentMonth
              /\ monthly_totals_out.status = "table"
              /\ monthly_totals_out.rows # << >>

\* the first accepted submission brought a month later than those of the
\* sample rows, so the month selected before it was an older one; the new
\* month is now the selected one
C10_Witness ==
    /\ last_event.op = "add" /\ last_event.accepted
    /\ Idle
    /\ n_added = 1
    /\ Len(StoreRows) = 7
    /\ SelectedMonth = [year |-> 2024, month |-> 11]

====
